---- MODULE Spec2Model ----
(***************************************************************************)
(* Model of the MPAS log-based regression validator,                       *)
(* .github/actions/validate-logs/compare_logs.py.                          *)
(*                                                                         *)
(* Three specifications share the module:                                  *)
(*   SpecParse    one call of parse_log_file, one action per log line;     *)
(*   SpecCompare  one call of compare_logs on two log files;               *)
(*   Spec         one invocation of main (both protocols).                 *)
(*                                                                         *)
(* Numbers: a log token denotes m * 10^e; percent errors are exact         *)
(* rationals <<num, den>> in lowest terms, +infinity being <<1, 0>>.       *)
(* Floating-point rounding and overflow to inf are outside the model.      *)
(* Strings that the code sorts, matches or formats are sequences of        *)
(* one-character strings.                                                  *)
(***************************************************************************)
EXTENDS Integers, Sequences, FiniteSets, TLC

VARIABLES
    \* parse_log_file (SpecParse)
    log_lines,      \* the lines of the file being read
    lineno,         \* number of lines consumed by the for loop
    current_step,   \* the staging dict
    timesteps,      \* the list of completed records
    parse_pc,       \* "idle" | "reading" | "returned" | "raised"
    \* compare_logs (SpecCompare)
    test_file,      \* lines of the test log
    ref_file,       \* lines of the reference log
    cmp_result,     \* <<>> before the call, then <<result>> or <<"raised">>
    \* main (Spec)
    args,           \* the parsed command line
    fs,             \* the logs root: entry name -> [is_dir, logs]
    results,        \* the result list handed to the aggregator
    calls,          \* the compare_logs calls made, in order
    exit_code,      \* the process exit status, -1 while running
    pc,             \* position of main
    \* what main reports
    table,          \* <<>>, then <<the table print_results_table printed>>
    all_md,         \* the list all_md of main
    written         \* what was appended to the summary file

vars == <<log_lines, lineno, current_step, timesteps, parse_pc,
          test_file, ref_file, cmp_result,
          args, fs, results, calls, exit_code, pc, table, all_md, written>>

parseVars == <<log_lines, lineno, current_step, timesteps, parse_pc>>
cmpVars   == <<test_file, ref_file, cmp_result>>
reportVars == <<table, all_md, written>>
mainVars  == <<args, fs, results, calls, exit_code, pc, reportVars>>

-----------------------------------------------------------------------------
(* Generic helpers *)

Min2(a, b) == IF a <= b THEN a ELSE b
Max2(a, b) == IF a >= b THEN a ELSE b
Abs(x) == IF x < 0 THEN -x ELSE x

RECURSIVE Pow10(_)
Pow10(e) == IF e = 0 THEN 1 ELSE 10 * Pow10(e - 1)

RECURSIVE GCD(_, _)
GCD(a, b) == IF b = 0 THEN a ELSE GCD(b, a % b)

\* All sequences over S of length at most n
SeqsUpTo(S, n) == UNION {[1..k -> S] : k \in 0..n}

-----------------------------------------------------------------------------
(* Rationals with +infinity: python floats as far as the code uses them *)

Inf == <<1, 0>>
Zero == <<0, 1>>

Rat(n, d) ==
    IF d = 0 THEN Inf
    ELSE LET g == GCD(Abs(n), Abs(d)) IN <<n \div g, d \div g>>

RatLt(a, b) == a[1] * b[2] < b[1] * a[2]
RatAdd(a, b) == Rat(a[1] * b[2] + b[1] * a[2], a[2] * b[2])
RatDivInt(a, n) == Rat(a[1], a[2] * n)
\* python's max(a, b): b only when b > a
RatMax(a, b) == IF RatLt(a, b) THEN b ELSE a

-----------------------------------------------------------------------------
(* parse_log_file *)

FIELDS == <<"w_min", "w_max", "u_min", "u_max">>
FieldSet == {FIELDS[i] : i \in 1..Len(FIELDS)}

\* A token is the text captured by ([-\d.E+]+): <<m, e>> is text that float()
\* reads as m * 10^e, <<>> is text of that character class that float()
\* rejects ("-", "1.2.3", "E+"), raising ValueError.
BadToken == <<>>
Tok(m, e) == <<m, e>>
IsFloat(tok) == Len(tok) = 2
float(tok) == tok[1] * Pow10(tok[2])

\* A line is what the two patterns find in it: .w and .u are <<>> when
\* the pattern does not match, else the two captured tokens.
NoMatch == <<>>
Line(w, u) == [w |-> w, u |-> u]
Matches(m) == Len(m) = 2

EmptyDict == <<>>
\* dict update d[k1] = v1; d[k2] = v2
Stage(d, k1, v1, k2, v2) ==
    [k \in (DOMAIN d) \cup {k1, k2} |->
        IF k = k1 THEN v1 ELSE IF k = k2 THEN v2 ELSE d[k]]

ParseStart == [timesteps |-> <<>>, current_step |-> EmptyDict, raised |-> FALSE]

\* the append-and-reset of lines 42-44, without the reset
ParseComplete_NoReset(ts, cs) ==
    [timesteps |-> Append(ts, cs), current_step |-> cs, raised |-> FALSE]

\* lines 42-44: the completed record is appended and staging restarts
ParseComplete(ts, cs) ==
    [timesteps |-> Append(ts, cs), current_step |-> EmptyDict, raised |-> FALSE]

\* One iteration of the for loop (lines 31-44) on parser state st
ParseLine(st, line) ==
    LET match_w == line.w
        match_u == line.u
        raises_w == Matches(match_w)
                      /\ (~IsFloat(match_w[1]) \/ ~IsFloat(match_w[2]))
        raises_u == Matches(match_u)
                      /\ (~IsFloat(match_u[1]) \/ ~IsFloat(match_u[2]))
        cs1 == IF Matches(match_w) /\ ~raises_w
               THEN Stage(st.current_step, "w_min", float(match_w[1]),
                                           "w_max", float(match_w[2]))
               ELSE st.current_step
        cs2 == IF Matches(match_u) /\ ~raises_u
               THEN Stage(cs1, "u_min", float(match_u[1]),
                               "u_max", float(match_u[2]))
               ELSE cs1
    IN  IF raises_w \/ raises_u
        THEN [st EXCEPT !.raised = TRUE]
        ELSE IF Matches(match_u) /\ "w_min" \in DOMAIN cs2
        THEN ParseComplete(st.timesteps, cs2)
        ELSE [st EXCEPT !.current_step = cs2]

RECURSIVE ParseFrom(_, _, _)
ParseFrom(st, lines, i) ==
    IF st.raised \/ i > Len(lines) THEN st
    ELSE ParseFrom(ParseLine(st, lines[i]), lines, i + 1)

\* parse_log_file(filepath): [raised, timesteps]
parse_log_file(lines) == ParseFrom(ParseStart, lines, 1)

-----------------------------------------------------------------------------
(* calc_percent_error, compare_logs *)

\* line 52 without the zero-reference guard of lines 50-51 having its
\* both-zero case: a zero reference always gives +infinity
calc_percent_error_NoBothZero(test_val, ref_val) ==
    IF ref_val = 0 THEN Inf
    ELSE Rat(Abs(test_val - ref_val) * 100, Abs(ref_val))

calc_percent_error(test_val, ref_val) ==
    IF ref_val = 0
    THEN (IF test_val = 0 THEN Zero ELSE Inf)
    ELSE Rat(Abs(test_val - ref_val) * 100, Abs(ref_val))

\* line 75 with the loop bound one short, as in range(n_compare - 1)
n_compare_OneShort(test_data, ref_data) ==
    Min2(Len(test_data), Len(ref_data)) - 1

\* line 75
n_compare(test_data, ref_data) == Min2(Len(test_data), Len(ref_data))

ZeroErrors == [k \in FieldSet |-> Zero]

\* lines 80-84: the accumulation over positions i..n (1-based here)
RECURSIVE Accumulate(_, _, _, _, _)
Accumulate(acc, test_data, ref_data, i, n) ==
    IF i > n THEN acc
    ELSE LET err == [k \in FieldSet |->
                        calc_percent_error(test_data[i][k], ref_data[i][k])]
             nxt == [max_errors |-> [k \in FieldSet |->
                                       RatMax(acc.max_errors[k], err[k])],
                     sum_errors |-> [k \in FieldSet |->
                                       RatAdd(acc.sum_errors[k], err[k])]]
         IN  Accumulate(nxt, test_data, ref_data, i + 1, n)

threshold == 1
close_threshold == 5

\* lines 88-94 with <= in place of <
Classify_Inclusive(max_errors) ==
    IF \A k \in FieldSet : ~RatLt(<<threshold, 1>>, max_errors[k])
    THEN "MATCH"
    ELSE IF \A k \in FieldSet : ~RatLt(<<close_threshold, 1>>, max_errors[k])
    THEN "CLOSE"
    ELSE "DIFFER"

\* lines 88-94 with the MATCH cutoff taken from --threshold
Classify_Wired(max_errors) ==
    IF \A k \in FieldSet : RatLt(max_errors[k], args.threshold)
    THEN "MATCH"
    ELSE IF \A k \in FieldSet : RatLt(max_errors[k], <<close_threshold, 1>>)
    THEN "CLOSE"
    ELSE "DIFFER"

\* lines 88-94
Classify(max_errors) ==
    IF \A k \in FieldSet : RatLt(max_errors[k], <<threshold, 1>>)
    THEN "MATCH"
    ELSE IF \A k \in FieldSet : RatLt(max_errors[k], <<close_threshold, 1>>)
    THEN "CLOSE"
    ELSE "DIFFER"

\* lines 59-73 testing the reference series first
EmptyGuards_RefFirst(test_data, ref_data) ==
    IF Len(ref_data) = 0
    THEN <<[status |-> "ERROR",
            reason |-> <<"No timesteps found in reference file">>,
            timesteps_test |-> Len(test_data),
            timesteps_ref |-> 0]>>
    ELSE IF Len(test_data) = 0
    THEN <<[status |-> "FAILED",
            reason |-> <<"No timesteps found in test file">>,
            timesteps_test |-> 0,
            timesteps_ref |-> Len(ref_data)]>>
    ELSE <<>>

\* lines 59-73: <<result>> when a series is empty, else <<>>
EmptyGuards(test_data, ref_data) ==
    IF Len(test_data) = 0
    THEN <<[status |-> "FAILED",
            reason |-> <<"No timesteps found in test file">>,
            timesteps_test |-> 0,
            timesteps_ref |-> Len(ref_data)]>>
    ELSE IF Len(ref_data) = 0
    THEN <<[status |-> "ERROR",
            reason |-> <<"No timesteps found in reference file">>,
            timesteps_test |-> Len(test_data),
            timesteps_ref |-> 0]>>
    ELSE <<>>

\* lines 59-103 on two parsed series
CompareSeries(test_data, ref_data) ==
    LET early == EmptyGuards(test_data, ref_data)
        n == n_compare(test_data, ref_data)
        acc == Accumulate([max_errors |-> ZeroErrors, sum_errors |-> ZeroErrors],
                          test_data, ref_data, 1, n)
        avg_errors == [k \in FieldSet |-> RatDivInt(acc.sum_errors[k], n)]
    IN  IF Len(early) > 0 THEN early[1]
        ELSE [status |-> Classify(acc.max_errors),
              timesteps_test |-> Len(test_data),
              timesteps_ref |-> Len(ref_data),
              timesteps_compared |-> n,
              max_errors |-> acc.max_errors,
              avg_errors |-> avg_errors]

Raised == [raised |-> TRUE]
Returned(r) == [raised |-> FALSE, value |-> r]

\* compare_logs(test_file, ref_file): the test log is parsed first; a
\* ValueError of either parse propagates to the caller
compare_logs(tfile, rfile) ==
    LET t == parse_log_file(tfile)
        r == parse_log_file(rfile)
    IN  IF t.raised THEN Raised
        ELSE IF r.raised THEN Raised
        ELSE Returned(CompareSeries(t.timesteps, r.timesteps))

-----------------------------------------------------------------------------
(* summarize_results *)

Count(rs, S) == Cardinality({i \in 1..Len(rs) : rs[i].status \in S})

\* lines 191-201 with NO_LOG never treated as a failure
ExitStatus_IgnoreNoLog(n_failed, n_differ, n_no_log, allow_missing) ==
    IF n_failed > 0 \/ n_differ > 0 THEN 1 ELSE 0

\* lines 191-201
ExitStatus(n_failed, n_differ, n_no_log, allow_missing) ==
    IF allow_missing
    THEN (IF n_failed > 0 \/ n_differ > 0 THEN 1 ELSE 0)
    ELSE (IF n_failed > 0 \/ n_differ > 0 \/ n_no_log > 0 THEN 1 ELSE 0)

\* line 185 counting only the FAILED results
FailedStatuses_FailedOnly == {"FAILED"}

\* line 185: the statuses counted by n_failed
FailedStatuses == {"FAILED", "ERROR"}

\* lines 187-188: the summary text as its <<number, label>> parts in order
SummaryText(n_match, n_close, n_differ, n_failed, n_no_log) ==
    << <<n_match, "MATCH">>, <<n_close, "CLOSE">>, <<n_differ, "DIFFER">>,
       <<n_failed, "FAILED">>, <<n_no_log, "NO_LOG">> >>

\* lines 180-201 treating an empty result list as a failure
summarize_results_EmptyFails(rs, allow_missing) ==
    LET n_no_log == Count(rs, {"NO_LOG"})
        n_failed == Count(rs, FailedStatuses)
    IN  [ec |-> IF Len(rs) = 0 THEN 1
                ELSE ExitStatus(n_failed, Count(rs, {"DIFFER"}), n_no_log,
                                allow_missing),
         summary |-> SummaryText(Count(rs, {"MATCH"}), Count(rs, {"CLOSE"}),
                                 Count(rs, {"DIFFER"}), n_failed, n_no_log)]

\* summarize_results(results, allow_missing): [ec, summary]
summarize_results(rs, allow_missing) ==
    LET n_match  == Count(rs, {"MATCH"})
        n_close  == Count(rs, {"CLOSE"})
        n_differ == Count(rs, {"DIFFER"})
        n_no_log == Count(rs, {"NO_LOG"})
        n_failed == Count(rs, FailedStatuses)
    IN  [ec |-> ExitStatus(n_failed, n_differ, n_no_log, allow_missing),
         summary |-> SummaryText(n_match, n_close, n_differ, n_failed, n_no_log)]

-----------------------------------------------------------------------------
(* Strings as sequences of characters: ordering, int(), str(), matching *)

\* the characters in use, in code point order
CharOrder == <<" ", "-", "0", "1", "2", "3", "4", "5", "6", "7", "8", "9",
               ":", "A", "Z", "a", "b", "c", "f", "g", "l", "o", "p", "r",
               "s", "v">>
OrdOf == [c \in {CharOrder[i] : i \in 1..Len(CharOrder)} |->
            CHOOSE i \in 1..Len(CharOrder) : CharOrder[i] = c]
Ord(c) == OrdOf[c]

DigitChars == <<"0", "1", "2", "3", "4", "5", "6", "7", "8", "9">>
DigitSet == {DigitChars[i] : i \in 1..10}
IsDigit(c) == c \in DigitSet
DigitValOf == [c \in DigitSet |-> (CHOOSE i \in 1..10 : DigitChars[i] = c) - 1]
DigitVal(c) == DigitValOf[c]

\* python's < on str
RECURSIVE StrLt(_, _)
StrLt(a, b) ==
    IF Len(b) = 0 THEN FALSE
    ELSE IF Len(a) = 0 THEN TRUE
    ELSE IF a[1] = b[1] THEN StrLt(Tail(a), Tail(b))
    ELSE Ord(a[1]) < Ord(b[1])

StartsWith(s, pre) ==
    Len(s) >= Len(pre) /\ SubSeq(s, 1, Len(pre)) = pre

\* sub in s
Contains(s, sub) ==
    \E i \in 1..(Len(s) - Len(sub) + 1) : SubSeq(s, i, i + Len(sub) - 1) = sub

\* int(text) for a string of digits
RECURSIVE IntAcc(_, _)
IntAcc(text, acc) ==
    IF Len(text) = 0 THEN acc
    ELSE IntAcc(Tail(text), acc * 10 + DigitVal(text[1]))
int(text) == IntAcc(text, 0)

\* str(n) for n >= 0
RECURSIVE str(_)
str(n) ==
    IF n < 10 THEN <<DigitChars[n + 1]>>
    ELSE str(n \div 10) \o <<DigitChars[(n % 10) + 1]>>

S_logs == <<"l", "o", "g", "s", "-">>
S_proc == <<"p", "r", "o", "c", "-">>
S_vs   == <<"p", "r", "o", "c", " ", "v", "s", " ", "1", "p", "r", "o", "c",
            ":", " ">>

\* number of leading digits of s
RECURSIVE DigitRun(_)
DigitRun(s) ==
    IF Len(s) > 0 /\ IsDigit(s[1]) THEN 1 + DigitRun(Tail(s)) ELSE 0

\* rank_pattern.match(name), line 254: <<>> or <<group(1), group(2)>>
rank_pattern(name) ==
    IF ~StartsWith(name, S_logs) THEN <<>>
    ELSE LET rest == SubSeq(name, Len(S_logs) + 1, Len(name))
             d == DigitRun(rest)
             after == SubSeq(rest, d + 1, Len(rest))
         IN  IF d > 0 /\ StartsWith(after, S_proc) /\ Len(after) > Len(S_proc)
             THEN <<SubSeq(rest, 1, d),
                    SubSeq(after, Len(S_proc) + 1, Len(after))>>
             ELSE <<>>

\* f"{nprocs}proc vs 1proc: {config_key}", line 273
DecompName(nprocs, config_key) == str(nprocs) \o S_vs \o config_key

-----------------------------------------------------------------------------
(* Sorting *)

\* s with x inserted after the last element not greater than x
RECURSIVE InsertName(_, _)
InsertName(s, x) ==
    IF Len(s) = 0 THEN <<x>>
    ELSE IF StrLt(x, s[1]) THEN <<x>> \o s
    ELSE <<s[1]>> \o InsertName(Tail(s), x)

RECURSIVE SortNames(_)
SortNames(s) ==
    IF Len(s) = 0 THEN <<>>
    ELSE InsertName(SortNames(SubSeq(s, 1, Len(s) - 1)), s[Len(s)])

\* tuple order on (nprocs, config_key, log_dir)
MultiLt(a, b) ==
    IF a[1] # b[1] THEN a[1] < b[1]
    ELSE IF a[2] # b[2] THEN StrLt(a[2], b[2])
    ELSE StrLt(a[3], b[3])

RECURSIVE InsertMulti(_, _)
InsertMulti(s, x) ==
    IF Len(s) = 0 THEN <<x>>
    ELSE IF MultiLt(x, s[1]) THEN <<x>> \o s
    ELSE <<s[1]>> \o InsertMulti(Tail(s), x)

RECURSIVE SortMulti(_)
SortMulti(s) ==
    IF Len(s) = 0 THEN <<>>
    ELSE InsertMulti(SortMulti(SubSeq(s, 1, Len(s) - 1)), s[Len(s)])

\* results.sort(key=lambda r: r['name']): stable
RECURSIVE InsertResult(_, _)
InsertResult(s, x) ==
    IF Len(s) = 0 THEN <<x>>
    ELSE IF StrLt(x.name, s[1].name) THEN <<x>> \o s
    ELSE <<s[1]>> \o InsertResult(Tail(s), x)

RECURSIVE SortResults(_)
SortResults(s) ==
    IF Len(s) = 0 THEN <<>>
    ELSE InsertResult(SortResults(SubSeq(s, 1, Len(s) - 1)), s[Len(s)])

-----------------------------------------------------------------------------
(* Reporter: print_results_table and format_markdown *)

\* STATUS_ICONS, lines 106-113, each icon by its name
STATUS_ICONS ==
    [st \in {"MATCH", "CLOSE", "DIFFER", "NO_LOG", "FAILED", "ERROR"} |->
        CASE st = "MATCH" -> "check mark"
          [] st = "CLOSE" -> "yellow circle"
          [] st = "NO_LOG" -> "white square"
          [] OTHER -> "cross mark"]

NumericStatuses == {"MATCH", "CLOSE", "DIFFER"}
Dash == <<"-">>

\* max(r['max_errors'].values())
MaxOfErrors(max_errors) ==
    RatMax(RatMax(RatMax(max_errors[FIELDS[1]], max_errors[FIELDS[2]]),
                  max_errors[FIELDS[3]]), max_errors[FIELDS[4]])

\* the digits of n, zero-padded on the left to width w
RECURSIVE ZeroPad(_, _)
ZeroPad(n, w) ==
    IF w = 0 THEN <<>> ELSE ZeroPad(n \div 10, w - 1) \o <<DigitChars[(n % 10) + 1]>>

\* f"{e:.4f}": four decimals, ties to even; "inf" for +infinity
Fmt4f(e) ==
    IF e[2] = 0 THEN <<"i", "n", "f">>
    ELSE LET scaled == e[1] * 10000
             q == scaled \div e[2]
             rem == scaled % e[2]
             up == 2 * rem > e[2] \/ (2 * rem = e[2] /\ q % 2 = 1)
             n == IF up THEN q + 1 ELSE q
         IN  str(n \div 10000) \o <<".">> \o ZeroPad(n % 10000, 4)

\* r.get(key, 0)
GetOr0(r, key) == IF key \in DOMAIN r THEN r[key] ELSE 0

\* f"{a}/{b}"
Slashed(a, b) == str(a) \o <<"/">> \o str(b)

\* lines 127-136 and 161-172 rendering "-" for every status without
\* numeric detail
TimestepsColumn_DashAll(r) ==
    IF r.status \in NumericStatuses
    THEN Slashed(r.timesteps_test, r.timesteps_ref)
    ELSE Dash

\* lines 127-136 and 161-172: the timestep-count column
TimestepsColumn(r) ==
    IF r.status \in NumericStatuses
    THEN Slashed(r.timesteps_test, r.timesteps_ref)
    ELSE IF r.status = "NO_LOG" THEN Dash
    ELSE Slashed(GetOr0(r, "timesteps_test"), GetOr0(r, "timesteps_ref"))

\* lines 127-136 and 161-172: the max-error column
MaxErrColumn(r) ==
    IF r.status \in NumericStatuses THEN Fmt4f(MaxOfErrors(r.max_errors))
    ELSE Dash

\* lines 138-143: the terminal colour of the status
StatusColour(status) ==
    IF status = "MATCH" THEN "92" ELSE IF status = "CLOSE" THEN "93" ELSE "91"

\* print_results_table, lines 116-147: the title and one row per result,
\* each row by its four column texts (column padding left out)
print_results_table(rs, title) ==
    [title |-> title,
     rows |-> [i \in 1..Len(rs) |->
                 [name |-> rs[i].name,
                  status |-> <<StatusColour(rs[i].status), rs[i].status>>,
                  timesteps |-> TimestepsColumn(rs[i]),
                  max_err |-> MaxErrColumn(rs[i])]]]

\* the backquote character of line 157
Backquote == <<"backquote">>

\* lines 157 and 165-169: the name cell, with the reason for NO_LOG rows
MarkdownName(r) ==
    Backquote \o r.name \o Backquote \o
      (IF r.status = "NO_LOG"
       THEN <<" (">> \o (IF "reason" \in DOMAIN r THEN r.reason
                                                   ELSE <<"No log file">>)
                    \o <<")">>
       ELSE <<>>)

\* format_markdown, lines 150-177: the title and one row per result
format_markdown(rs, title) ==
    [title |-> title,
     rows |-> [i \in 1..Len(rs) |->
                 [name |-> MarkdownName(rs[i]),
                  status |-> <<STATUS_ICONS[rs[i].status], rs[i].status>>,
                  timesteps |-> TimestepsColumn(rs[i]),
                  max_err |-> MaxErrColumn(rs[i])]]]

T_Decomposition == "Decomposition Consistency Test"
T_Reference == "Reference Comparison"

-----------------------------------------------------------------------------
(* Directory scanning: get_log_dirs and the two protocols *)

None == <<>>

\* result['name'] = name
WithName(r, name) ==
    [k \in (DOMAIN r) \cup {"name"} |-> IF k = "name" THEN name ELSE r[k]]

\* a NO_LOG entry that also carries zeroed error maps
NoLog_WithErrorMaps(name, reason) ==
    [name |-> name, status |-> "NO_LOG", reason |-> reason,
     max_errors |-> ZeroErrors, avg_errors |-> ZeroErrors]

\* a reason is its text as a sequence of fragments
NoLog(name, reason) == [name |-> name, status |-> "NO_LOG", reason |-> reason]

R_NoLogFile      == <<"No log file found">>
R_FailedSkipped  == <<"Run failed or skipped">>
R_NoMatching(key)  == <<"No matching 1proc log for ">> \o key
R_RefLogMissing  == <<"1proc log file missing">>
R_TestLogMissing(nprocs) == str(nprocs) \o <<"proc log file missing">>

RECURSIVE FilterDirs(_, _, _)
FilterDirs(names, fsys, name_filter) ==
    IF Len(names) = 0 THEN <<>>
    ELSE LET d == names[1]
             rest == FilterDirs(Tail(names), fsys, name_filter)
         IN  IF ~fsys[d].is_dir THEN rest
             ELSE IF Len(name_filter) > 0 /\ ~Contains(d, name_filter) THEN rest
             ELSE <<d>> \o rest

\* lines 204-212 iterating in the order the directory is listed
get_log_dirs_Unsorted(listing, fsys, name_filter) ==
    FilterDirs(listing, fsys, name_filter)

\* get_log_dirs, lines 204-212; listing is the order iterdir() yields
get_log_dirs(listing, fsys, name_filter) ==
    FilterDirs(SortNames(listing), fsys, name_filter)

\* lines 235-239 / 298-302 appending an entry for every expected name
Backfill_All(rs, expected_configs, found_names) ==
    rs \o [i \in 1..Len(expected_configs) |->
              NoLog(expected_configs[i], R_FailedSkipped)]

\* lines 235-239 / 298-302
RECURSIVE Backfill(_, _, _)
Backfill(rs, expected_configs, found_names) ==
    IF Len(expected_configs) = 0 THEN rs
    ELSE LET exp == expected_configs[1]
             rs1 == IF exp \notin found_names
                    THEN Append(rs, NoLog(exp, R_FailedSkipped))
                    ELSE rs
         IN  Backfill(rs1, Tail(expected_configs), found_names)

RefCall == <<"reference">>
ScanStart == [raised |-> FALSE, results |-> <<>>, calls |-> <<>>,
              found_names |-> {}]

\* lines 223-233: the loop over log directories, from position i
RECURSIVE ReferenceLoop(_, _, _, _, _)
ReferenceLoop(acc, dirs, i, fsys, reference) ==
    IF acc.raised \/ i > Len(dirs) THEN acc
    ELSE LET name == dirs[i]
             log_files == fsys[name].logs
             found == acc.found_names \cup {name}
             cmp == compare_logs(log_files[1], reference)
             nxt ==
               IF Len(log_files) = 0
               THEN [acc EXCEPT !.found_names = found,
                       !.results = Append(@, NoLog(name, R_NoLogFile))]
               ELSE IF cmp.raised
               THEN [acc EXCEPT !.raised = TRUE]
               ELSE [acc EXCEPT !.found_names = found,
                       !.results = Append(@, WithName(cmp.value, name)),
                       !.calls = Append(@, [name |-> name, test |-> name,
                                            ref |-> RefCall])]
         IN  ReferenceLoop(nxt, dirs, i + 1, fsys, reference)

\* run_reference_comparison, lines 215-243: [raised, results, calls]
run_reference_comparison(listing, fsys, reference, name_filter, expected_configs) ==
    LET ref_data == parse_log_file(reference)
        dirs == get_log_dirs(listing, fsys, name_filter)
        scan == ReferenceLoop(ScanStart, dirs, 1, fsys, reference)
    IN  IF ref_data.raised \/ scan.raised
        THEN [raised |-> TRUE, results |-> <<>>, calls |-> <<>>]
        ELSE [raised |-> FALSE,
              results |-> SortResults(Backfill(scan.results, expected_configs,
                                               scan.found_names)),
              calls |-> scan.calls]

\* lines 259-268: the partition into single_rank and multi_rank
RECURSIVE Partition(_, _, _)
Partition(part, dirs, i) ==
    IF i > Len(dirs) THEN part
    ELSE LET log_dir == dirs[i]
             m == rank_pattern(log_dir)
             nprocs == int(m[1])
             config_key == m[2]
             nxt ==
               IF Len(m) = 0 THEN part
               ELSE IF nprocs = 1
               THEN [part EXCEPT !.single_rank =
                       [k \in (DOMAIN @) \cup {config_key} |->
                          IF k = config_key THEN log_dir ELSE @[k]]]
               ELSE [part EXCEPT !.multi_rank =
                       Append(@, <<nprocs, config_key, log_dir>>)]
         IN  Partition(nxt, dirs, i + 1)

\* lines 272-296 with the test of line 289 placed before that of line 285
RECURSIVE DecompositionLoop_TestFirst(_, _, _, _, _)
DecompositionLoop_TestFirst(acc, multi, i, single_rank, fsys) ==
    IF acc.raised \/ i > Len(multi) THEN acc
    ELSE LET nprocs == multi[i][1]
             config_key == multi[i][2]
             multi_dir == multi[i][3]
             name == DecompName(nprocs, config_key)
             found == acc.found_names \cup {name}
             has_ref == config_key \in DOMAIN single_rank
             ref_dir == single_rank[config_key]
             ref_logs == fsys[ref_dir].logs
             test_logs == fsys[multi_dir].logs
             cmp == compare_logs(test_logs[1], ref_logs[1])
             nolog(reason) == [acc EXCEPT !.found_names = found,
                                 !.results = Append(@, NoLog(name, reason))]
             nxt ==
               IF ~has_ref THEN nolog(R_NoMatching(config_key))
               ELSE IF Len(test_logs) = 0 THEN nolog(R_TestLogMissing(nprocs))
               ELSE IF Len(ref_logs) = 0 THEN nolog(R_RefLogMissing)
               ELSE IF cmp.raised THEN [acc EXCEPT !.raised = TRUE]
               ELSE [acc EXCEPT !.found_names = found,
                       !.results = Append(@, WithName(cmp.value, name)),
                       !.calls = Append(@, [name |-> name, test |-> multi_dir,
                                            ref |-> ref_dir])]
         IN  DecompositionLoop_TestFirst(nxt, multi, i + 1, single_rank, fsys)

\* lines 272-296: the loop over the sorted multi-rank entries
RECURSIVE DecompositionLoop(_, _, _, _, _)
DecompositionLoop(acc, multi, i, single_rank, fsys) ==
    IF acc.raised \/ i > Len(multi) THEN acc
    ELSE LET nprocs == multi[i][1]
             config_key == multi[i][2]
             multi_dir == multi[i][3]
             name == DecompName(nprocs, config_key)
             found == acc.found_names \cup {name}
             has_ref == config_key \in DOMAIN single_rank
             ref_dir == single_rank[config_key]
             ref_logs == fsys[ref_dir].logs
             test_logs == fsys[multi_dir].logs
             cmp == compare_logs(test_logs[1], ref_logs[1])
             nolog(reason) == [acc EXCEPT !.found_names = found,
                                 !.results = Append(@, NoLog(name, reason))]
             nxt ==
               IF ~has_ref THEN nolog(R_NoMatching(config_key))
               ELSE IF Len(ref_logs) = 0 THEN nolog(R_RefLogMissing)
               ELSE IF Len(test_logs) = 0 THEN nolog(R_TestLogMissing(nprocs))
               ELSE IF cmp.raised THEN [acc EXCEPT !.raised = TRUE]
               ELSE [acc EXCEPT !.found_names = found,
                       !.results = Append(@, WithName(cmp.value, name)),
                       !.calls = Append(@, [name |-> name, test |-> multi_dir,
                                            ref |-> ref_dir])]
         IN  DecompositionLoop(nxt, multi, i + 1, single_rank, fsys)

\* run_decomposition_test, lines 246-309: [raised, results, calls]
run_decomposition_test(listing, fsys, expected_configs) ==
    LET dirs == get_log_dirs(listing, fsys, None)
        part == Partition([single_rank |-> <<>>, multi_rank |-> <<>>], dirs, 1)
        scan == DecompositionLoop(ScanStart, SortMulti(part.multi_rank), 1,
                                  part.single_rank, fsys)
    IN  IF scan.raised
        THEN [raised |-> TRUE, results |-> <<>>, calls |-> <<>>]
        ELSE [raised |-> FALSE,
              results |-> SortResults(Backfill(scan.results, expected_configs,
                                               scan.found_names)),
              calls |-> scan.calls]

-----------------------------------------------------------------------------
(* main: command line handling *)

\* s.strip(), whitespace being the space character
RECURSIVE LStrip(_)
LStrip(s) == IF Len(s) > 0 /\ s[1] = " " THEN LStrip(Tail(s)) ELSE s
RECURSIVE RStrip(_)
RStrip(s) ==
    IF Len(s) > 0 /\ s[Len(s)] = " " THEN RStrip(SubSeq(s, 1, Len(s) - 1))
    ELSE s
strip(s) == RStrip(LStrip(s))

\* s.split(',')
RECURSIVE SplitFrom(_, _, _)
SplitFrom(s, i, cur) ==
    IF i > Len(s) THEN <<cur>>
    ELSE IF s[i] = "," THEN <<cur>> \o SplitFrom(s, i + 1, <<>>)
    ELSE SplitFrom(s, i + 1, Append(cur, s[i]))
split(s) == SplitFrom(s, 1, <<>>)

RECURSIVE StripNonEmpty(_)
StripNonEmpty(parts) ==
    IF Len(parts) = 0 THEN <<>>
    ELSE LET e == strip(parts[1])
         IN  (IF Len(e) > 0 THEN <<e>> ELSE <<>>) \o StripNonEmpty(Tail(parts))

\* lines 355-357: the expected list, None when --expected is absent or empty
ParseExpected(text) ==
    IF Len(text) = 0 THEN None ELSE StripNonEmpty(split(text))

\* all orders in which a directory holding the entries S may be listed
Listings(S) ==
    {l \in [1..Cardinality(S) -> S] : \A i, j \in DOMAIN l : i # j => l[i] # l[j]}

-----------------------------------------------------------------------------
(* Inputs *)

MaxLines == 4   \* lines of the file read in SpecParse
MaxSteps == 2   \* timestep blocks per log file in SpecCompare
MaxDirs  == 3   \* entries of the logs root in Spec

wl(a, b) == Line(<<a, b>>, NoMatch)
ul(a, b) == Line(NoMatch, <<a, b>>)
OtherLine == Line(NoMatch, NoMatch)

\* the lines SpecParse draws from
ParseLines ==
    { OtherLine,
      wl(Tok(-2, 2), Tok(2, 2)), wl(Tok(-201, 0), Tok(2, 2)),
      wl(BadToken, Tok(2, 2)),
      ul(Tok(-1, 2), Tok(1, 2)), ul(Tok(-1, 2), Tok(105, 0)),
      Line(<<Tok(0, 0), Tok(0, 0)>>, <<Tok(-1, 2), Tok(103, 0)>>) }

\* timestep blocks as the model writes them: a "w" line, then a "u" line
B_ref  == <<wl(Tok(-2, 2), Tok(2, 2)),   ul(Tok(-1, 2), Tok(1, 2))>>
B_half == <<wl(Tok(-201, 0), Tok(2, 2)), ul(Tok(-1, 2), Tok(1, 2))>>
B_one  == <<wl(Tok(-202, 0), Tok(2, 2)), ul(Tok(-1, 2), Tok(1, 2))>>
B_five == <<wl(Tok(-2, 2), Tok(2, 2)),   ul(Tok(-1, 2), Tok(105, 0))>>
B_zero == <<wl(Tok(0, 0), Tok(0, 0)),    ul(Tok(0, 0), Tok(0, 0))>>
Blocks == {B_ref, B_half, B_one, B_five, B_zero}

RECURSIVE Concat(_)
Concat(ss) == IF Len(ss) = 0 THEN <<>> ELSE ss[1] \o Concat(Tail(ss))

F_bad == <<wl(Tok(-2, 2), Tok(2, 2)), ul(Tok(-1, 2), BadToken)>>

\* the log files SpecCompare draws from
CompareFiles == {Concat(bs) : bs \in SeqsUpTo(Blocks, MaxSteps)} \cup {F_bad}

\* the log files Spec draws from: F_one against F_five is CLOSE, F_five
\* against F_one is DIFFER, each against itself is MATCH
F_one   == B_one
F_five  == B_five
F_empty == <<OtherLine, ul(Tok(-1, 2), Tok(1, 2))>>
MainFiles == {F_one, F_five, F_empty, F_bad}

N_cfgA == <<"c", "f", "g", "A">>
N_cfgZ == <<"c", "f", "g", "Z">>
N_1a   == S_logs \o <<"1">> \o S_proc \o <<"a">>
N_01a  == S_logs \o <<"0", "1">> \o S_proc \o <<"a">>
N_4a   == S_logs \o <<"4">> \o S_proc \o <<"a">>
N_2b   == S_logs \o <<"2">> \o S_proc \o <<"b">>
X_4a   == <<"4">> \o S_vs \o <<"a">>
EntryNames == {N_cfgA, N_1a, N_01a, N_4a, N_2b}

\* what an entry of the logs root may be: cfgA a regular file, an empty
\* directory or a directory with a good log; every other name a directory
\* with no log file or with one of the log files
Dir(logs) == [is_dir |-> TRUE, logs |-> logs]
RegularFile == [is_dir |-> FALSE, logs |-> <<>>]
EntriesOf(name) ==
    IF name = N_cfgA THEN {RegularFile, Dir(<<>>), Dir(<<F_one>>)}
    ELSE {Dir(<<>>)} \cup {Dir(<<f>>) : f \in MainFiles}

FileSystems ==
    UNION {{f \in [D -> UNION {EntriesOf(n) : n \in D}] :
               \A n \in D : f[n] \in EntriesOf(n)} :
           D \in {E \in SUBSET EntryNames : Cardinality(E) <= MaxDirs}}

ExpectedTexts == {None, N_4a \o <<",", " ">> \o X_4a \o <<",">> \o N_cfgZ}
Filters == {None, S_proc \o <<"a">>}
File(lines) == [exists |-> TRUE, lines |-> lines]
MissingFile == [exists |-> FALSE, lines |-> <<>>]

\* --allow-missing and --summary-file are drawn where main reads them
\* (lines 364 and 377, line 382): the field is <<>> until then, <<flag>>
\* afterwards
Unread == <<>>

\* --threshold, lines 324-327: the default 1.0, or 5.0
DefaultThreshold == <<1, 1>>
Thresholds == {DefaultThreshold, <<5, 1>>}

ArgSets ==
    [decomposition_test : {TRUE}, logs_dir_exists : {TRUE},
     reference : {None}, name_filter : {None},
     expected : ExpectedTexts, allow_missing : {Unread},
     threshold : Thresholds, summary_file : {Unread}]
    \cup
    [decomposition_test : {FALSE}, logs_dir_exists : {TRUE},
     reference : {<<File(F_one)>>, <<File(F_bad)>>},
     name_filter : Filters,
     expected : ExpectedTexts, allow_missing : {Unread},
     threshold : Thresholds, summary_file : {Unread}]

\* command lines that main rejects before scanning
BadArgSets ==
    [decomposition_test : BOOLEAN, logs_dir_exists : {FALSE},
     reference : {None}, name_filter : {None},
     expected : {None}, allow_missing : {Unread},
     threshold : {DefaultThreshold}, summary_file : {Unread}]
    \cup
    [decomposition_test : {FALSE}, logs_dir_exists : {TRUE},
     reference : {None, <<MissingFile>>}, name_filter : {None},
     expected : {None}, allow_missing : {Unread},
     threshold : {DefaultThreshold}, summary_file : {Unread}]

NoArgs == [decomposition_test |-> FALSE, logs_dir_exists |-> FALSE,
           reference |-> None, name_filter |-> None,
           expected |-> None, allow_missing |-> Unread,
           threshold |-> DefaultThreshold, summary_file |-> Unread]

ParseIdle ==
    /\ log_lines = <<>> /\ lineno = 0 /\ current_step = EmptyDict
    /\ timesteps = <<>> /\ parse_pc = "off"
CompareIdle == test_file = <<>> /\ ref_file = <<>> /\ cmp_result = <<>>
ReportIdle == table = <<>> /\ all_md = <<>> /\ written = <<>>
MainIdle ==
    /\ args = NoArgs /\ fs = <<>> /\ results = <<>> /\ calls = <<>>
    /\ exit_code = -1 /\ pc = "off" /\ ReportIdle

-----------------------------------------------------------------------------
(* SpecParse: one call of parse_log_file *)

InitParse ==
    /\ log_lines \in SeqsUpTo(ParseLines, MaxLines)
    /\ lineno = 0 /\ current_step = EmptyDict /\ timesteps = <<>>
    /\ parse_pc = "idle"
    /\ CompareIdle /\ MainIdle

\* lines 27-30: the locals are set up and the file is opened
ParseOpen ==
    /\ parse_pc = "idle"
    /\ parse_pc' = "reading"
    /\ timesteps' = ParseStart.timesteps
    /\ current_step' = ParseStart.current_step
    /\ UNCHANGED <<log_lines, lineno, cmpVars, mainVars>>

\* lines 31-44: one iteration of the for loop
ParseNextLine ==
    /\ parse_pc = "reading"
    /\ lineno < Len(log_lines)
    /\ LET st == ParseLine([timesteps |-> timesteps,
                            current_step |-> current_step,
                            raised |-> FALSE], log_lines[lineno + 1])
       IN  /\ lineno' = lineno + 1
           /\ timesteps' = st.timesteps
           /\ current_step' = st.current_step
           /\ parse_pc' = IF st.raised THEN "raised" ELSE "reading"
    /\ UNCHANGED <<log_lines, cmpVars, mainVars>>

\* line 46
ParseReturn ==
    /\ parse_pc = "reading"
    /\ lineno = Len(log_lines)
    /\ parse_pc' = "returned"
    /\ UNCHANGED <<log_lines, lineno, current_step, timesteps, cmpVars, mainVars>>

NextParse == ParseOpen \/ ParseNextLine \/ ParseReturn
SpecParse == InitParse /\ [][NextParse]_vars

-----------------------------------------------------------------------------
(* SpecCompare: one call of compare_logs, its result handed to the aggregator *)

InitCompare ==
    /\ test_file \in CompareFiles
    /\ ref_file \in CompareFiles
    /\ cmp_result = <<>>
    /\ args = NoArgs /\ fs = <<>> /\ results = <<>> /\ calls = <<>>
    /\ exit_code = -1 /\ pc = "compare"
    /\ ReportIdle
    /\ ParseIdle

\* compare_logs(test_file, ref_file)
CallCompareLogs ==
    /\ pc = "compare"
    /\ cmp_result' = <<compare_logs(test_file, ref_file)>>
    /\ pc' = "compared"
    /\ UNCHANGED <<test_file, ref_file, args, fs, results, calls, exit_code,
                   reportVars, parseVars>>

\* the caller's use of a returned result: lines 232-233, then 377-378
AggregateCompared ==
    /\ pc = "compared"
    /\ ~cmp_result[1].raised
    /\ \E allow_missing \in BOOLEAN :
         LET rs == <<WithName(cmp_result[1].value, N_cfgA)>>
         IN  /\ results' = rs
             /\ args' = [args EXCEPT !.allow_missing = <<allow_missing>>]
             /\ exit_code' = Max2(0, summarize_results(rs, allow_missing).ec)
    /\ pc' = "summarized"
    /\ UNCHANGED <<test_file, ref_file, cmp_result, fs, calls, reportVars,
                   parseVars>>

NextCompare == CallCompareLogs \/ AggregateCompared
SpecCompare == InitCompare /\ [][NextCompare]_vars

-----------------------------------------------------------------------------
(* Spec: one invocation of main *)

Init ==
    /\ \/ args \in ArgSets /\ fs \in FileSystems
       \/ args \in BadArgSets /\ fs = <<>>
    /\ results = <<>> /\ calls = <<>> /\ exit_code = -1 /\ pc = "start"
    /\ ReportIdle
    /\ ParseIdle /\ CompareIdle

PathsOk ==
    /\ args.logs_dir_exists
    /\ args.decomposition_test
         \/ (Len(args.reference) = 1 /\ args.reference[1].exists)

\* lines 351-353 and 369-374: sys.exit(1) before any comparison
MainRejectPaths ==
    /\ pc = "start"
    /\ ~PathsOk
    /\ exit_code' = 1
    /\ pc' = "rejected"
    /\ UNCHANGED <<args, fs, results, calls, reportVars, parseVars, cmpVars>>

\* the protocol returns its result list, or an exception raised inside it
\* reaches the top level: traceback, exit status 1
\* (lines 242 and 308: the table is printed just before the return)
Ran(out, title) ==
    IF out.raised
    THEN pc' = "crashed" /\ exit_code' = 1
           /\ UNCHANGED <<results, calls, table>>
    ELSE pc' = "ran" /\ results' = out.results /\ calls' = out.calls
           /\ table' = <<print_results_table(out.results, title)>>
           /\ UNCHANGED exit_code

\* line 363
MainRunDecomposition ==
    /\ pc = "start"
    /\ PathsOk
    /\ args.decomposition_test
    /\ \E listing \in Listings(DOMAIN fs) :
         Ran(run_decomposition_test(listing, fs, ParseExpected(args.expected)),
             T_Decomposition)
    /\ UNCHANGED <<args, fs, all_md, written, parseVars, cmpVars>>

\* lines 375-376
MainRunReference ==
    /\ pc = "start"
    /\ PathsOk
    /\ ~args.decomposition_test
    /\ \E listing \in Listings(DOMAIN fs) :
         Ran(run_reference_comparison(listing, fs, args.reference[1].lines,
                                      args.name_filter,
                                      ParseExpected(args.expected)),
             T_Reference)
    /\ UNCHANGED <<args, fs, all_md, written, parseVars, cmpVars>>

\* lines 364-367 / 377-380, 382-384 and 386
MainSummarizeAndExit ==
    /\ pc = "ran"
    /\ \E allow_missing \in BOOLEAN, summary_file \in BOOLEAN :
         LET out == summarize_results(results, allow_missing)
             title == IF args.decomposition_test THEN T_Decomposition
                                                 ELSE T_Reference
             md == <<format_markdown(results, title), out.summary>>
         IN  /\ args' = [args EXCEPT !.allow_missing = <<allow_missing>>,
                                     !.summary_file = <<summary_file>>]
             /\ exit_code' = Max2(0, out.ec)
             /\ all_md' = md
             /\ written' = IF summary_file THEN md ELSE <<>>
    /\ pc' = "exited"
    /\ UNCHANGED <<fs, results, calls, table, parseVars, cmpVars>>

Next ==
    \/ MainRejectPaths
    \/ MainRunDecomposition
    \/ MainRunReference
    \/ MainSummarizeAndExit

Spec == Init /\ [][Next]_vars

-----------------------------------------------------------------------------
(* Properties of parse_log_file (SpecParse) *)

HasW(i) == Matches(log_lines[i].w)
HasU(i) == Matches(log_lines[i].u)

\* line i holds the most recent "w" marker at the "u" marker of line j, and
\* no "u" marker has consumed it; on one line the "w" pattern is applied
\* before the "u" pattern
StagedFor(i, j) ==
    /\ i <= j /\ HasW(i)
    /\ \A k \in (i + 1)..j : ~HasW(k)
    /\ \A k \in i..(j - 1) : ~HasU(k)

Completes(j) == HasU(j) /\ \E i \in 1..j : StagedFor(i, j)

PairedRecord(j) ==
    LET i == CHOOSE i \in 1..j : StagedFor(i, j)
    IN  [w_min |-> float(log_lines[i].w[1]), w_max |-> float(log_lines[i].w[2]),
         u_min |-> float(log_lines[j].u[1]), u_max |-> float(log_lines[j].u[2])]

Completing(n) == {j \in 1..n : Completes(j)}
NthOf(P, m) == CHOOSE j \in P : Cardinality({x \in P : x <= j}) = m
PairedRecords(n) ==
    [m \in 1..Cardinality(Completing(n)) |-> PairedRecord(NthOf(Completing(n), m))]

\* C6: while parse_log_file reads and when it returns, the records are
\* exactly one per "u" marker that arrived while a "w" was staged, in log
\* order, with w values from the most recent "w" marker and u values from
\* the completing "u" marker; an unstaged "u" and a trailing "w" give nothing.
C6_RecordsArePairs ==
    parse_pc \in {"reading", "returned"} => timesteps = PairedRecords(lineno)

\* a returned parse with a dropped leading "u", one record and a trailing "w"
C6_Witness ==
    /\ parse_pc = "returned"
    /\ Len(log_lines) = 4
    /\ Len(timesteps) = 1
    /\ HasU(1) /\ ~HasW(1) /\ ~Completes(1)
    /\ HasW(4) /\ ~HasU(4)

-----------------------------------------------------------------------------
(* Properties of compare_logs (SpecCompare) *)

Compared == pc \in {"compared", "summarized"} /\ ~cmp_result[1].raised
TheResult == cmp_result[1].value
TestSeries == parse_log_file(test_file).timesteps
RefSeries == parse_log_file(ref_file).timesteps
BothNonEmpty == Compared /\ Len(TestSeries) > 0 /\ Len(RefSeries) > 0

\* every field's max error is below pct percent
AllBelow(max_errors, pct) ==
    \A k \in FieldSet : max_errors[k][1] < pct * max_errors[k][2]

StatusRank(st) == CASE st = "MATCH" -> 1 [] st = "CLOSE" -> 2 [] st = "DIFFER" -> 3

ErrorLevels == {Zero, <<1, 2>>, <<99, 100>>, <<1, 1>>, <<3, 1>>, <<499, 100>>,
                <<5, 1>>, <<100, 1>>, Inf}

\* C2: for two non-empty series the status is MATCH exactly when every max
\* error is below 1.0, CLOSE exactly when it is not MATCH and every max error
\* is below 5.0, DIFFER otherwise; raising one field's max error never moves
\* the status backward along MATCH, CLOSE, DIFFER.
C2_Classification ==
    BothNonEmpty =>
      LET r == TheResult IN
      /\ r.status \in {"MATCH", "CLOSE", "DIFFER"}
      /\ (r.status = "MATCH") <=> AllBelow(r.max_errors, 1)
      /\ (r.status = "CLOSE") <=>
            (~AllBelow(r.max_errors, 1) /\ AllBelow(r.max_errors, 5))
      /\ (r.status = "DIFFER") <=> ~AllBelow(r.max_errors, 5)
      /\ \A k \in FieldSet : \A e \in ErrorLevels :
            ~RatLt(e, r.max_errors[k]) =>
               StatusRank(Classify([r.max_errors EXCEPT ![k] = e]))
                  >= StatusRank(r.status)

\* a comparison whose largest error is exactly 1.0 percent, classified CLOSE
C2_Witness ==
    /\ BothNonEmpty
    /\ TheResult.status = "CLOSE"
    /\ TheResult.max_errors["w_min"] = <<1, 1>>
    /\ \A k \in FieldSet \ {"w_min"} : TheResult.max_errors[k] = Zero

\* C4: an empty test series gives FAILED (also when the reference series is
\* empty too) with timesteps_test 0 and timesteps_ref the reference length;
\* otherwise an empty reference series gives ERROR with timesteps_ref 0 and
\* timesteps_test the test length; either makes the exit status 1.
C4_EmptySeries ==
    Compared =>
      /\ Len(TestSeries) = 0 =>
            TheResult = [status |-> "FAILED",
                         reason |-> <<"No timesteps found in test file">>,
                         timesteps_test |-> 0,
                         timesteps_ref |-> Len(RefSeries)]
      /\ (Len(TestSeries) > 0 /\ Len(RefSeries) = 0) =>
            TheResult = [status |-> "ERROR",
                         reason |-> <<"No timesteps found in reference file">>,
                         timesteps_test |-> Len(TestSeries),
                         timesteps_ref |-> 0]
      /\ (pc = "summarized" /\ (Len(TestSeries) = 0 \/ Len(RefSeries) = 0)) =>
            exit_code = 1

\* both series empty: FAILED, and exit status 1 even with allow-missing on
C4_Witness ==
    /\ pc = "summarized"
    /\ Len(TestSeries) = 0 /\ Len(RefSeries) = 0
    /\ TheResult.status = "FAILED"
    /\ args.allow_missing[1]
    /\ exit_code = 1

PositionErrors(ts, rs, k, n) ==
    [i \in 1..n |-> calc_percent_error(ts[i][k], rs[i][k])]

RECURSIVE RatSum(_)
RatSum(es) == IF Len(es) = 0 THEN Zero ELSE RatAdd(es[1], RatSum(Tail(es)))

\* C5: for two non-empty series N = min of the lengths is what is compared:
\* the three counts are len(test), len(ref) and N, each max error is the
\* largest and each average the sum over N of the percent errors at the first
\* N positions, and the records past N change neither them nor the status.
C5_CommonPrefix ==
    Compared =>
      LET r == TheResult
          ts == TestSeries
          rs == RefSeries
          N == IF Len(ts) <= Len(rs) THEN Len(ts) ELSE Len(rs)
          cut == CompareSeries(SubSeq(ts, 1, N), SubSeq(rs, 1, N))
      IN  (Len(ts) > 0 /\ Len(rs) > 0) =>
          /\ r.timesteps_compared = N
          /\ r.timesteps_test = Len(ts)
          /\ r.timesteps_ref = Len(rs)
          /\ \A k \in FieldSet :
               LET es == PositionErrors(ts, rs, k, N) IN
               /\ \E i \in 1..N : r.max_errors[k] = es[i]
               /\ \A i \in 1..N : ~RatLt(r.max_errors[k], es[i])
               /\ r.avg_errors[k] = RatDivInt(RatSum(es), N)
          /\ r.max_errors = cut.max_errors
          /\ r.avg_errors = cut.avg_errors
          /\ r.status = cut.status

\* a longer test series whose extra record alone would have been DIFFER
C5_Witness ==
    /\ BothNonEmpty
    /\ Len(TestSeries) = 2 /\ Len(RefSeries) = 1
    /\ TheResult.status = "MATCH"
    /\ TheResult.timesteps_compared = 1
    /\ calc_percent_error(TestSeries[2]["w_min"], RefSeries[1]["w_min"]) = <<100, 1>>

\* C9: the percent error of a compared position is 0 when both values are
\* zero, +infinity when only the reference is zero, |test - ref| / |ref| * 100
\* otherwise (0 for equal values); a zero reference with a non-zero test value
\* at a compared position gives DIFFER.
C9_PercentError ==
    Compared =>
      LET r == TheResult
          ts == TestSeries
          rs == RefSeries
      IN  (Len(ts) > 0 /\ Len(rs) > 0) =>
          /\ \A i \in 1..r.timesteps_compared : \A k \in FieldSet :
                (rs[i][k] = 0 /\ ts[i][k] # 0) =>
                   (r.status = "DIFFER" /\ r.max_errors[k] = Inf)
          /\ r.timesteps_compared = 1 =>
                \A k \in FieldSet :
                  LET t == ts[1][k]
                      f == rs[1][k]
                      e == r.max_errors[k]
                  IN  /\ (f = 0 /\ t = 0) => e = Zero
                      /\ (f = 0 /\ t # 0) => e = Inf
                      /\ f # 0 => (e[2] > 0
                                   /\ e[1] * Abs(f) = Abs(t - f) * 100 * e[2])
                      /\ t = f => e = Zero

\* a zero reference value against a non-zero test value
C9_Witness ==
    /\ BothNonEmpty
    /\ TheResult.timesteps_compared = 1
    /\ RefSeries[1]["u_max"] = 0 /\ TestSeries[1]["u_max"] # 0
    /\ TheResult.status = "DIFFER"

-----------------------------------------------------------------------------
(* Properties of an invocation (Spec) *)

Reported == pc \in {"ran", "exited"}
StatusesOf(rs) == {rs[i].status : i \in 1..Len(rs)}
ExpectedNames ==
    LET e == ParseExpected(args.expected) IN {e[i] : i \in 1..Len(e)}

\* C1: the exit status is 1 if some result is FAILED, ERROR or DIFFER, or if
\* allow-missing is off and some result is NO_LOG, and 0 in every other case;
\* main exits with that status.
C1_ExitStatus ==
    pc = "exited" =>
      exit_code =
        (IF StatusesOf(results) \cap {"FAILED", "ERROR", "DIFFER"} # {}
            \/ (~args.allow_missing[1] /\ "NO_LOG" \in StatusesOf(results))
         THEN 1 ELSE 0)

\* allow-missing on, a NO_LOG among otherwise passing results: exit status 0
C1_Witness ==
    /\ pc = "exited"
    /\ args.allow_missing[1]
    /\ StatusesOf(results) = {"NO_LOG", "MATCH"}
    /\ exit_code = 0

\* the reference log, when one is used, parses
ReferenceWellFormed ==
    args.decomposition_test \/ ~parse_log_file(args.reference[1].lines).raised

\* C3: a malformed log in one configuration never aborts the run: with a
\* well-formed reference no invocation ends in an uncaught exception.
C3_NoAbort == (pc = "crashed") => ~ReferenceWellFormed

\* the names the scan found: directory names that pass the filter in the
\* reference protocol, synthesized names of the multi-rank directories in the
\* decomposition protocol
ScannedDirs ==
    {d \in DOMAIN fs : fs[d].is_dir
        /\ (args.decomposition_test \/ Len(args.name_filter) = 0
              \/ Contains(d, args.name_filter))}
MultiRankDirs ==
    {d \in ScannedDirs : Len(rank_pattern(d)) = 2 /\ int(rank_pattern(d)[1]) # 1}
SingleRankDirs(key) ==
    {d \in ScannedDirs : Len(rank_pattern(d)) = 2 /\ int(rank_pattern(d)[1]) = 1
        /\ rank_pattern(d)[2] = key}
NameOfMulti(d) == DecompName(int(rank_pattern(d)[1]), rank_pattern(d)[2])
FoundNames ==
    IF args.decomposition_test THEN {NameOfMulti(d) : d \in MultiRankDirs}
    ELSE ScannedDirs

HasReason(r, reason) == "reason" \in DOMAIN r /\ r.reason = reason
IsBackfill(r, name) ==
    r.name = name /\ r.status = "NO_LOG" /\ HasReason(r, R_FailedSkipped)

\* C7: every expected name the scan did not find has a NO_LOG result with
\* reason "Run failed or skipped", no found name has one, and with such an
\* entry the exit status is 1 unless allow-missing is on.
C7_ExpectedBackfill ==
    Reported =>
      LET found == FoundNames IN
      /\ \A e \in ExpectedNames :
            (e \notin found) <=>
               (\E i \in 1..Len(results) : IsBackfill(results[i], e))
      /\ \A i \in 1..Len(results) :
            HasReason(results[i], R_FailedSkipped) =>
               results[i].name \in ExpectedNames
      /\ (pc = "exited" /\ ~args.allow_missing[1] /\ ExpectedNames \ found # {})
            => exit_code = 1

\* an expected name found, two expected names not found, allow-missing off
C7_Witness ==
    /\ pc = "exited"
    /\ ~args.allow_missing[1]
    /\ ExpectedNames \cap FoundNames # {}
    /\ Cardinality({i \in 1..Len(results) :
                      HasReason(results[i], R_FailedSkipped)}) = 2
    /\ StatusesOf(results) = {"NO_LOG", "MATCH"}
    /\ exit_code = 1

LiteralSingle(key) == S_logs \o <<"1">> \o S_proc \o key

\* the single-rank directory the code keeps for a key: the last one in
\* name order, which is logs-1proc-<key> itself whenever that exists
KeptSingle(key) ==
    CHOOSE r \in SingleRankDirs(key) :
        \A o \in SingleRankDirs(key) : ~StrLt(r, o)

\* C8: in the decomposition protocol every multi-rank directory yields
\* exactly one result, named "<N>proc vs 1proc: <key>"; when both logs exist
\* it is the comparison of its log (test) against the log of the single-rank
\* directory with the same key (reference), which is logs-1proc-<key> whenever
\* that directory exists, whatever order the directories are listed in.
C8_DecompositionPairing ==
    (Reported /\ args.decomposition_test) =>
      \A d \in MultiRankDirs :
        LET key == rank_pattern(d)[2]
            name == NameOfMulti(d)
            named == {i \in 1..Len(results) : results[i].name = name}
            mine == {i \in 1..Len(calls) : calls[i].test = d}
            singles == SingleRankDirs(key)
            ref == KeptSingle(key)
        IN  /\ Cardinality(named)
                 = Cardinality({o \in MultiRankDirs : NameOfMulti(o) = name})
            /\ (LiteralSingle(key) \in singles) => ref = LiteralSingle(key)
            /\ IF singles # {} /\ Len(fs[ref].logs) > 0 /\ Len(fs[d].logs) > 0
               THEN /\ Cardinality(mine) = 1
                    /\ \A i \in mine :
                         calls[i] = [name |-> name, test |-> d, ref |-> ref]
                    /\ \E j \in named :
                         results[j] =
                           WithName(compare_logs(fs[d].logs[1],
                                                 fs[ref].logs[1]).value, name)
               ELSE /\ mine = {}
                    /\ \A j \in named : results[j].status = "NO_LOG"

\* logs-4proc-a compared against logs-1proc-a although logs-01proc-a, with a
\* different log, is a single-rank directory of the same key
C8_Witness ==
    /\ Reported /\ args.decomposition_test
    /\ DOMAIN fs = {N_1a, N_01a, N_4a}
    /\ fs[N_1a].logs = <<F_one>> /\ fs[N_01a].logs = <<F_five>>
    /\ fs[N_4a].logs = <<F_five>>
    /\ Len(calls) = 1 /\ calls[1].test = N_4a /\ calls[1].ref = N_1a
    /\ \E i \in 1..Len(results) :
          results[i].name = X_4a /\ results[i].status = "DIFFER"

\* C10: every result handed to the aggregator carries max_errors and
\* avg_errors exactly when its status is MATCH, CLOSE or DIFFER, and carries a
\* reason only when its status is NO_LOG, FAILED or ERROR.
C10_ResultShape ==
    Reported =>
      \A i \in 1..Len(results) :
        LET r == results[i]
            numeric == r.status \in {"MATCH", "CLOSE", "DIFFER"}
        IN  /\ ("max_errors" \in DOMAIN r) <=> numeric
            /\ ("avg_errors" \in DOMAIN r) <=> numeric
            /\ ("reason" \in DOMAIN r) =>
                  r.status \in {"NO_LOG", "FAILED", "ERROR"}

\* a result list with a numeric result, a NO_LOG and a FAILED result
C10_Witness ==
    /\ Reported
    /\ StatusesOf(results) = {"NO_LOG", "FAILED", "DIFFER"}

-----------------------------------------------------------------------------
(* Properties of the report (Spec) *)

SixStatuses == {"MATCH", "CLOSE", "DIFFER", "NO_LOG", "FAILED", "ERROR"}
NumberWith(S) == Cardinality({i \in 1..Len(results) : results[i].status \in S})
\* the summary line that follows the structured summary
SummaryLine == all_md[2]

\* C11 as claimed: the summary line carries, for each of the six statuses,
\* the number of results with that status under that status's label, so
\* FAILED and ERROR results are counted and reported separately.
C11_SixWayCounts ==
    pc = "exited" =>
      \A st \in SixStatuses :
        \E i \in 1..Len(SummaryLine) : SummaryLine[i] = <<NumberWith({st}), st>>

\* C11 amended: the aggregator computes five counts, and the summary line
\* that follows the structured summary (and is appended with it to the
\* summary file) gives exactly those five, in the order MATCH, CLOSE, DIFFER,
\* FAILED, NO_LOG; the FAILED number counts the FAILED and the ERROR results
\* together, and the five numbers add up to the number of results.
C11_FiveWayCounts ==
    pc = "exited" =>
      /\ SummaryLine = << <<NumberWith({"MATCH"}), "MATCH">>,
                          <<NumberWith({"CLOSE"}), "CLOSE">>,
                          <<NumberWith({"DIFFER"}), "DIFFER">>,
                          <<NumberWith({"FAILED", "ERROR"}), "FAILED">>,
                          <<NumberWith({"NO_LOG"}), "NO_LOG">> >>
      /\ SummaryLine[1][1] + SummaryLine[2][1] + SummaryLine[3][1]
            + SummaryLine[4][1] + SummaryLine[5][1] = Len(results)
      /\ args.summary_file[1] => written = all_md
      /\ ~args.summary_file[1] => written = <<>>

\* an ERROR result and no FAILED result, reported as "1 FAILED" in the
\* summary line written to the summary file
C11_Witness ==
    /\ pc = "exited"
    /\ args.summary_file[1]
    /\ "ERROR" \in StatusesOf(results) /\ "FAILED" \notin StatusesOf(results)
    /\ written[2][4] = <<1, "FAILED">>

WithoutDetail == {"NO_LOG", "FAILED", "ERROR"}
TableRows == table[1].rows
MarkdownRows == all_md[1].rows

\* C12 as claimed: in the terminal table and in the structured summary every
\* NO_LOG, FAILED or ERROR result has "-" in its timestep-count column and in
\* its max-error column.
C12_AllDash ==
    /\ Reported =>
          \A i \in 1..Len(results) :
            results[i].status \in WithoutDetail =>
              (TableRows[i].timesteps = Dash /\ TableRows[i].max_err = Dash)
    /\ pc = "exited" =>
          \A i \in 1..Len(results) :
            results[i].status \in WithoutDetail =>
              (MarkdownRows[i].timesteps = Dash /\ MarkdownRows[i].max_err = Dash)

\* the two columns of row i of a rendering, as the amended claim has them
DetailColumnsOk(row, r) ==
    /\ r.status \in WithoutDetail => row.max_err = Dash
    /\ r.status = "NO_LOG" => row.timesteps = Dash
    /\ r.status \in {"FAILED", "ERROR"} =>
          /\ row.timesteps = str(r.timesteps_test) \o <<"/">> \o str(r.timesteps_ref)
          /\ row.timesteps # Dash
    /\ r.status = "FAILED" => row.timesteps[1] = "0"
    /\ r.status = "ERROR" => row.timesteps[Len(row.timesteps)] = "0"

\* C12 amended: in the terminal table and in the structured summary there
\* is one row per result, in result order; every NO_LOG, FAILED or ERROR
\* result has "-" in its max-error column; the timestep-count column is "-"
\* for NO_LOG only, and for FAILED and ERROR it shows the recorded counts as
\* "<test>/<reference>" ("0/<n>" for FAILED, "<n>/0" for ERROR).
C12_DetailColumns ==
    /\ Reported =>
          /\ Len(TableRows) = Len(results)
          /\ \A i \in 1..Len(results) :
                /\ TableRows[i].name = results[i].name
                /\ DetailColumnsOk(TableRows[i], results[i])
    /\ pc = "exited" =>
          /\ Len(MarkdownRows) = Len(results)
          /\ \A i \in 1..Len(results) :
                /\ MarkdownRows[i].status[2] = results[i].status
                /\ DetailColumnsOk(MarkdownRows[i], results[i])

\* a FAILED result shown with "0/1" and a NO_LOG result shown with "-", in
\* the table and in the structured summary
C12_Witness ==
    /\ pc = "exited"
    /\ \E i, j \in 1..Len(results) :
          /\ results[i].status = "FAILED"
          /\ TableRows[i].timesteps = <<"0", "/", "1">>
          /\ MarkdownRows[i].timesteps = <<"0", "/", "1">>
          /\ MarkdownRows[i].max_err = Dash
          /\ results[j].status = "NO_LOG"
          /\ TableRows[j].timesteps = Dash
          /\ MarkdownRows[j].timesteps = Dash

-----------------------------------------------------------------------------
(* Properties of the decomposition protocol (Spec) *)

NoMultiRank == args.decomposition_test /\ PathsOk /\ MultiRankDirs = {}

\* C13 as claimed: with no multi-rank directory in the root,
\* run_decomposition_test returns an empty result set and the invocation
\* exits with status 0.
C13_EmptyIsSuccess ==
    NoMultiRank =>
      /\ Reported => results = <<>>
      /\ pc = "exited" => exit_code = 0

\* C13 amended: with no multi-rank directory in the root,
\* run_decomposition_test compares nothing, does not raise, and returns
\* exactly the back-fill entries, one per expected name: an empty result set
\* when no expected names are given, and then the table has no rows and the
\* invocation exits with status 0; with back-fill entries the exit status is
\* 0 only when allow-missing is on.
C13_NoMultiRank ==
    NoMultiRank =>
      /\ pc # "crashed"
      /\ Reported =>
            /\ calls = <<>>
            /\ Len(results) = Len(ParseExpected(args.expected))
            /\ \A i \in 1..Len(results) :
                  \E e \in ExpectedNames : IsBackfill(results[i], e)
            /\ ExpectedNames = {} => (results = <<>> /\ TableRows = <<>>)
      /\ pc = "exited" =>
            exit_code = (IF results = <<>> \/ args.allow_missing[1] THEN 0 ELSE 1)

\* a root with a single-rank directory and an unrelated directory, no
\* expected names, allow-missing off: no results, exit status 0
C13_Witness ==
    /\ pc = "exited"
    /\ NoMultiRank
    /\ DOMAIN fs = {N_1a, N_cfgA} /\ fs[N_cfgA].is_dir
    /\ ExpectedNames = {}
    /\ ~args.allow_missing[1]
    /\ results = <<>>
    /\ exit_code = 0

\* the results carrying the name of multi-rank directory d
ResultsOf(d) ==
    {results[i] : i \in {j \in 1..Len(results) : results[j].name = NameOfMulti(d)}}
ComparedAsTest(d) == \E i \in 1..Len(calls) : calls[i].test = d

\* C14: in the decomposition protocol the absence checks for a multi-rank
\* directory are applied in a fixed order and the first that applies decides
\* the result: no single-rank directory of its config-key gives NO_LOG with
\* the reason "No matching 1proc log for <key>"; else a single-rank
\* directory without a run-log gives NO_LOG "1proc log file missing", also
\* when the multi-rank log is missing too; else a multi-rank directory
\* without a run-log gives NO_LOG "<N>proc log file missing"; the comparison
\* is run only when none applies, and then the result is not NO_LOG.
C14_AbsenceOrder ==
    (Reported /\ args.decomposition_test) =>
      \A d \in MultiRankDirs :
        LET key == rank_pattern(d)[2]
            N == int(rank_pattern(d)[1])
            name == NameOfMulti(d)
            singles == SingleRankDirs(key)
            ref == KeptSingle(key)
            absent(reason) ==
              /\ ResultsOf(d) = {[name |-> name, status |-> "NO_LOG",
                                  reason |-> reason]}
              /\ ~ComparedAsTest(d)
        IN  IF singles = {}
            THEN absent(<<"No matching 1proc log for ">> \o key)
            ELSE IF fs[ref].logs = <<>>
            THEN absent(<<"1proc log file missing">>)
            ELSE IF fs[d].logs = <<>>
            THEN absent(str(N) \o <<"proc log file missing">>)
            ELSE /\ ComparedAsTest(d)
                 /\ \A r \in ResultsOf(d) : r.status # "NO_LOG"
                 /\ ResultsOf(d) # {}

\* logs-1proc-a and logs-4proc-a both without a run-log: the result is
\* "1proc log file missing"; logs-2proc-b has no single-rank partner
C14_Witness ==
    /\ Reported /\ args.decomposition_test
    /\ DOMAIN fs = {N_1a, N_4a, N_2b}
    /\ fs[N_1a].logs = <<>> /\ fs[N_4a].logs = <<>>
    /\ \E i, j \in 1..Len(results) :
          /\ results[i].name = X_4a
          /\ HasReason(results[i], <<"1proc log file missing">>)
          /\ HasReason(results[j], <<"No matching 1proc log for ", "b">>)

-----------------------------------------------------------------------------
(* Properties of the command line (Spec) *)

\* the status that the cutoffs 1.0 and 5.0 give
FixedCutoffStatus(max_errors) ==
    IF AllBelow(max_errors, 1) THEN "MATCH"
    ELSE IF AllBelow(max_errors, 5) THEN "CLOSE"
    ELSE "DIFFER"

====
